---- MODULE Spec2Model ----
(***************************************************************************)
(* A model of figurex: the Panel / Figure context managers of              *)
(* figurex/figure.py, layout resolution (uniform grids and mosaics) and    *)
(* the map helpers of figurenv/figure.py (UTM zone, scale bar, basemap,    *)
(* ticks) and the GeoPanel of figurex/geo/figure.py.                       *)
(*                                                                         *)
(* Python values are encoded so that every comparison is between values of *)
(* one shape:                                                              *)
(*   - a mosaic label is a sequence of naturals: the int n is <<0, n>>,    *)
(*     the str with character codes c1..ck is <<1, c1, ..., ck>>;          *)
(*   - a panel setting is a string: "None" is Python's None, "" the empty  *)
(*     str, "(0,1)" a tuple, "[0,1,0,1]" a list;                           *)
(*   - an axis is a record [fig, label, start]: the pyplot figure that     *)
(*     holds it, its label (grid position for uniform grids) and the       *)
(*     index of the top-left grid cell of its subplotspec;                 *)
(*   - the value of an `ax` / `axes` attribute is a record [kind, val]:    *)
(*     kind says whether it is a single axis, a list, a dict, a memory     *)
(*     buffer or not set, val holds the axes in order.                     *)
(***************************************************************************)
EXTENDS Integers, Sequences, FiniteSets, TLC

\* ------------------------------------------------------------------
\* Bounds of the model
\* ------------------------------------------------------------------

\* Figures constructed in one run
MaxFigures == 2
\* Panels constructed in one run
MaxPanels == 2
\* with-blocks running inside one another
MaxDepth == 2
\* Largest number of rows and of columns of an enumerated uniform grid
MaxGrid == 3

\* ------------------------------------------------------------------
\* Small helpers
\* ------------------------------------------------------------------

SetMin(S) == CHOOSE x \in S : \A y \in S : x <= y

SetMax(S) == CHOOSE x \in S : \A y \in S : x >= y

RECURSIVE Concat(_)
Concat(ss) == IF ss = <<>> THEN <<>> ELSE Head(ss) \o Concat(Tail(ss))

\* ------------------------------------------------------------------
\* Mosaic labels
\* ------------------------------------------------------------------

IntLabel(n) == <<0, n>>

StrLabel(codes) == <<1>> \o codes

IsStr(l) == l[1] = 1

\* '.', the placeholder of plt.subplot_mosaic (empty_sentinel)
Sentinel == StrLabel(<<46>>)

\* Python's str < str: lexicographic on the character codes
RECURSIVE StrLess(_, _)
StrLess(s, t) ==
    IF t = <<>> THEN FALSE
    ELSE IF s = <<>> THEN TRUE
    ELSE IF Head(s) # Head(t) THEN Head(s) < Head(t)
    ELSE StrLess(Tail(s), Tail(t))

\* Python's a < b on two labels of one type (int < int, str < str)
LabelLess(a, b) ==
    IF IsStr(a) THEN StrLess(Tail(a), Tail(b)) ELSE a[2] < b[2]

\* ------------------------------------------------------------------
\* Axes and attribute values
\* ------------------------------------------------------------------

Axis(f, label, start) == [fig |-> f, label |-> label, start |-> start]

Unset == [kind |-> "unset", val |-> <<>>]

OneAxis(a) == [kind |-> "axis", val |-> <<a>>]

AxList(s) == [kind |-> "list", val |-> s]

AxDict(s) == [kind |-> "dict", val |-> s]

Memory == [kind |-> "memory", val |-> <<>>]

\* ------------------------------------------------------------------
\* Layouts
\* ------------------------------------------------------------------

\* A tuple layout (rows, cols); tuple and list are what isinstance says
Grid(r, c) ==
    [tuple |-> TRUE, list |-> FALSE, shape |-> <<r, c>>, rows |-> <<>>]

\* A list layout: rows of labels
Mosaic(m) ==
    [tuple |-> FALSE, list |-> TRUE,
     shape |-> <<Len(m), IF m = <<>> THEN 0 ELSE Len(m[1])>>, rows |-> m]

\* A layout that is neither a tuple nor a list, such as the str "ab"
StrLayout ==
    [tuple |-> FALSE, list |-> FALSE, shape |-> <<0, 0>>, rows |-> <<>>]

\* GridSpec raises ValueError unless both numbers are positive
GridValueError(r, c) == r <= 0 \/ c <= 0

\* plt.subplots(rows, cols): the figure's axes in creation order (row by
\* row), and the returned array with squeeze=True: a scalar (ndim 0) for
\* 1x1, a 1-D array for a single row or column, else a 2-D array.
SubplotsAxes(f, r, c) == [k \in 1..(r * c) |-> Axis(f, IntLabel(k - 1), k - 1)]

SubplotsArray(f, r, c) ==
    LET axs == SubplotsAxes(f, r, c)
        arr == [i \in 1..r |-> [j \in 1..c |-> axs[(i - 1) * c + j]]]
    IN  IF r = 1 /\ c = 1 THEN [ndim |-> 0, data |-> <<arr[1][1]>>]
        ELSE IF r = 1 THEN [ndim |-> 1, data |-> arr[1]]
        ELSE IF c = 1 THEN [ndim |-> 1, data |-> [i \in 1..r |-> arr[i][1]]]
        ELSE [ndim |-> 2, data |-> arr]

\* The mutant of Flatten: column-major (Fortran) order
FlattenF(a) ==
    IF a.ndim = 2
    THEN LET r == Len(a.data)
             c == Len(a.data[1])
         IN  [k \in 1..(r * c) |-> a.data[((k - 1) % r) + 1][((k - 1) \div r) + 1]]
    ELSE a.data

\* numpy.ndarray.flatten(): row-major (C) order
Flatten(a) == IF a.ndim = 2 THEN Concat(a.data) ELSE a.data

\* Figure.create_panel_grid: the value of self.axes
CreatePanelGrid(f, layout) ==
    LET a == SubplotsArray(f, layout.shape[1], layout.shape[2])
    IN  IF layout.shape[1] = 1 /\ layout.shape[2] = 1
        THEN AxList(<<a.data[1]>>)
        ELSE AxList(Flatten(a))

\* plt.subplot_mosaic(layout): the cells of the label matrix
Cells(m) == (1..Len(m)) \X (1..Len(m[1]))

UniqueIds(m) == {m[c[1]][c[2]] : c \in Cells(m)} \ {Sentinel}

CellsOf(m, name) == {c \in Cells(m) : m[c[1]][c[2]] = name}

\* The bounding rectangle of a label (the slice slc of _do_layout)
BBox(m, name) ==
    LET cs == CellsOf(m, name)
    IN  [r0 |-> SetMin({c[1] : c \in cs}), r1 |-> SetMax({c[1] : c \in cs}),
         c0 |-> SetMin({c[2] : c \in cs}), c1 |-> SetMax({c[2] : c \in cs})]

\* "(mosaic[slc] != name).any()": the label's cells are not its rectangle
NonRectangular(m, name) ==
    LET b == BBox(m, name)
    IN  \E c \in Cells(m) :
            /\ c[1] \in b.r0..b.r1
            /\ c[2] \in b.c0..b.c1
            /\ m[c[1]][c[2]] # name

\* _make_array raises ValueError for an empty list ("r0, *rest = inp") and
\* for rows of unequal length
Ragged(m) == m = <<>> \/ \E i \in 1..Len(m) : Len(m[i]) # Len(m[1])

\* subplot_mosaic raises ValueError for a malformed list and for a
\* non-rectangular label
MosaicValueError(m) ==
    \/ Ragged(m)
    \/ \E name \in UniqueIds(m) : NonRectangular(m, name)

\* The top-left cell of a label's subplotspec, as get_geometry() counts it
StartOf(m, name) ==
    LET b == BBox(m, name) IN (b.r0 - 1) * Len(m[1]) + (b.c0 - 1)

\* The labels in the order _do_layout adds their axes: sorted by the
\* (row, col) of the top-left cell; st maps each label to its StartOf
RECURSIVE ByPosition(_, _)
ByPosition(st, names) ==
    IF names = {} THEN <<>>
    ELSE LET n == CHOOSE x \in names : \A y \in names : st[x] <= st[y]
         IN  <<n>> \o ByPosition(st, names \ {n})

\* The axes of the new figure in creation order: fig.axes, and also the
\* insertion order of the returned dict
MosaicAxes(f, m) ==
    LET ids   == UniqueIds(m)
        st    == [n \in ids |-> StartOf(m, n)]
        names == ByPosition(st, ids)
    IN  [k \in 1..Len(names) |-> Axis(f, names[k], st[names[k]])]

\* sorted(..., key=lambda pair: pair[0]) raises TypeError when it has to
\* compare an int label with a str label
SortTypeError(axs) == \E i, j \in 1..Len(axs) : IsStr(axs[i].label) # IsStr(axs[j].label)

\* Insertion of one item into a sorted list of items
RECURSIVE Insert(_, _)
Insert(a, s) ==
    IF s = <<>> THEN <<a>>
    ELSE IF LabelLess(a.label, Head(s).label) THEN <<a>> \o s
    ELSE <<Head(s)>> \o Insert(a, Tail(s))

RECURSIVE SortedByLabel(_)
SortedByLabel(axs) ==
    IF axs = <<>> THEN <<>>
    ELSE Insert(Head(axs), SortedByLabel(Tail(axs)))

\* The mutant of CreatePanelMosaic: the dict's values in insertion order,
\* without the sort
CreatePanelMosaicUnsorted(d) == AxList(d)

\* Figure.create_panel_mosaic: the value of self.axes when no error is
\* raised; d is the dict plt.subplot_mosaic returned, in insertion order
CreatePanelMosaic(d) == AxList(SortedByLabel(d))

\* ------------------------------------------------------------------
\* Panel settings
\* ------------------------------------------------------------------

Keys == {"spines", "grid", "x_range", "y_range", "extent"}

\* Panel.default_panel_kw
default_panel_kw ==
    [spines |-> "lb", grid |-> "xy", x_range |-> "None", y_range |-> "None",
     extent |-> "None"]

\* The value of a keyword argument that may not have been passed
\* (every optional argument of Panel.__init__ defaults to None)
Arg(args, k) == IF k \in DOMAIN args THEN args[k] ELSE "None"

\* Python's truth value of a setting: None and the empty str/tuple are false
Truthy(v) == v \notin {"None", "", "Absent"}

\* isinstance(v, tuple)
IsTuple(v) == v \in {"(0,1)", "(2,3)"}

\* The mutant of PanelSetting: "if not spines" instead of "if spines is None"
PanelSettingFalsy(args, pkw, k) ==
    IF ~Truthy(Arg(args, k)) /\ k \in DOMAIN pkw THEN pkw[k] ELSE Arg(args, k)

\* Panel.__init__, one setting: the argument, or Panel.panel_kw when the
\* argument is None
PanelSetting(args, pkw, k) ==
    IF Arg(args, k) = "None" /\ k \in DOMAIN pkw THEN pkw[k] ELSE Arg(args, k)

\* Panel.__init__: the attributes of the new object (self.ax is not set yet)
PanelObject(title, args, pkw) ==
    [title   |-> title,
     spines  |-> PanelSetting(args, pkw, "spines"),
     grid    |-> PanelSetting(args, pkw, "grid"),
     x_range |-> PanelSetting(args, pkw, "x_range"),
     y_range |-> PanelSetting(args, pkw, "y_range"),
     extent  |-> PanelSetting(args, pkw, "extent"),
     ax      |-> Unset]

\* Figure.__init__: Panel.panel_kw is reset to a copy of the defaults and
\* then takes the keyword arguments of this Figure
FigurePanelKw(kwargs) ==
    [k \in Keys |-> IF k \in DOMAIN kwargs THEN kwargs[k] ELSE default_panel_kw[k]]

\* ------------------------------------------------------------------
\* State
\* ------------------------------------------------------------------

VARIABLES
    panel_kw,     \* Panel.panel_kw (class attribute)
    current_ax,   \* Figure.current_ax (class attribute)
    is_panel,     \* Figure.is_panel (class attribute)
    figures,      \* the live Figure objects, in order of construction
    panels,       \* the live Panel objects, in order of construction
    open,         \* pyplot's open figures, the current one (plt.gcf()) last
    nfig,         \* pyplot figures created so far
    decor,        \* what the last __exit__ applied: <<axis, setting, value>>
    stack,        \* the kinds ("F", "P", "G") of the context managers whose
                  \* with-block is running, innermost last
    pending,      \* the kind of the context manager a with-statement has
                  \* constructed and not entered yet, or "none"
    exc,          \* the exception that is propagating, or "None"
    target,       \* the value the last __enter__ returned (the `as` target)
    made,         \* how many Figures and Panels were constructed (history)
    lastkw,       \* the keyword arguments of the last Figure() (history)
    hist,         \* the values Panel.__enter__ produced since the last
                  \* Figure was constructed (history)
    geo           \* the map helpers' last call: input and result

figvars == <<panel_kw, current_ax, is_panel, figures, panels, open, nfig,
             decor, stack, pending, exc, target, made, lastkw, hist>>

vars == <<panel_kw, current_ax, is_panel, figures, panels, open, nfig, decor,
          stack, pending, exc, target, made, lastkw, hist, geo>>

NoArgs == [k \in {} |-> "None"]

NoGeo == [op |-> "none"]

\* The class attributes as the class bodies set them, nothing constructed
InitFig ==
    /\ panel_kw = default_panel_kw
    /\ current_ax = -1
    /\ is_panel = TRUE
    /\ figures = <<>>
    /\ panels = <<>>
    /\ open = <<>>
    /\ nfig = 0
    /\ decor = {}
    /\ stack = <<>>
    /\ pending = "none"
    /\ exc = "None"
    /\ target = Unset
    /\ made = [F |-> 0, P |-> 0]
    /\ lastkw = NoArgs
    /\ hist = <<>>

Top(s) == s[Len(s)]

Pop(s) == SubSeq(s, 1, Len(s) - 1)

\* ------------------------------------------------------------------
\* pyplot
\* ------------------------------------------------------------------

\* plt.gcf(): the current figure; a new empty one is created when none is open
GcfOpen(op, n) == IF op = <<>> THEN <<[id |-> n + 1, axes |-> <<>>]>> ELSE op

GcfCount(op, n) == IF op = <<>> THEN n + 1 ELSE n

\* Python's seq[i]: negative indices count from the end
InRange(s, i) == -Len(s) <= i /\ i < Len(s)

PyIndex(s, i) == IF i >= 0 THEN s[i + 1] ELSE s[Len(s) + i + 1]

\* Figure.get_next_axis: the counter after the call
NextCounter(ip, cur) == IF ~ip THEN cur + 1 ELSE cur

\* ------------------------------------------------------------------
\* Figure
\* ------------------------------------------------------------------

\* self.layout == (1,1)
IsOneByOne(layout) == layout.tuple /\ layout.shape = <<1, 1>>

\* Figure.__init__: the attributes of the new object. no, kwargs and
\* entered are history: the figure's number, the keyword arguments it was
\* given and how many Panels were entered directly inside its with-block.
FigureObject(layout, title, save, kwargs, pkw, no) ==
    LET p == IF IsOneByOne(layout)
             THEN PanelObject(title, kwargs, pkw)
             ELSE [title |-> title, spines |-> "Absent", grid |-> "Absent",
                   x_range |-> "Absent", y_range |-> "Absent",
                   extent |-> "Absent", ax |-> Unset]
    IN  [layout |-> layout, save |-> save, title |-> p.title,
         spines |-> p.spines, grid |-> p.grid, x_range |-> p.x_range,
         y_range |-> p.y_range, extent |-> p.extent, ax |-> p.ax,
         axes |-> Unset, fig |-> 0, no |-> no, kwargs |-> kwargs,
         entered |-> 0]

FigureInit(layout, title, save, kwargs) ==
    /\ pending = "none"
    /\ exc # "None" => stack = <<>>
    /\ made.F < MaxFigures
    /\ Len(stack) < MaxDepth
    /\ panel_kw' = FigurePanelKw(kwargs)
    /\ current_ax' = -1
    /\ is_panel' = IsOneByOne(layout)
    /\ figures' = Append(figures, FigureObject(layout, title, save, kwargs,
                                               panel_kw', made.F + 1))
    /\ pending' = "F"
    /\ exc' = "None"
    /\ made' = [made EXCEPT !.F = @ + 1]
    /\ lastkw' = kwargs
    /\ hist' = <<>>
    /\ UNCHANGED <<panels, open, nfig, decor, stack, target, geo>>

\* The mutant of FigureAx: the Figure never behaves like a Panel
FigureAxList(ip, axes, got) == axes

\* Figure.__enter__: self.ax is the flat list of axes, or, when the figure
\* behaves like a Panel, what Panel.__enter__ stored over it
FigureAx(ip, axes, got) == IF ip THEN got ELSE axes

\* plt.subplots / plt.subplot_mosaic for a layout: whether a pyplot figure
\* was created, the error raised, the new figure's axes in creation order,
\* and self.axes.  pyplot creates the figure before it looks at the layout;
\* a layout that is neither tuple nor list takes neither branch.
Resolve(f, layout) ==
    IF layout.tuple
    THEN IF GridValueError(layout.shape[1], layout.shape[2])
         THEN [created |-> TRUE, error |-> "ValueError", figaxes |-> <<>>,
               axes |-> Unset]
         ELSE [created |-> TRUE, error |-> "None",
               figaxes |-> SubplotsAxes(f, layout.shape[1], layout.shape[2]),
               axes |-> CreatePanelGrid(f, layout)]
    ELSE IF ~layout.list
    THEN [created |-> FALSE, error |-> "None", figaxes |-> <<>>, axes |-> Unset]
    ELSE IF MosaicValueError(layout.rows)
    THEN [created |-> TRUE, error |-> "ValueError", figaxes |-> <<>>,
          axes |-> Unset]
    ELSE LET d == MosaicAxes(f, layout.rows)
         IN  IF SortTypeError(d)
             THEN [created |-> TRUE, error |-> "TypeError", figaxes |-> d,
                   axes |-> AxDict(d)]
             ELSE [created |-> TRUE, error |-> "None", figaxes |-> d,
                   axes |-> CreatePanelMosaic(d)]

\* Figure.__enter__ of the figure a with-statement has just constructed
FigureEnter ==
    /\ pending = "F"
    /\ \E r \in {Resolve(nfig + 1, Top(figures).layout)} :
       LET i  == Len(figures)
           me == figures[i]
           f  == nfig + 1
           failed == r.error # "None"
           \* super().__enter__(): Figure.get_next_axis() on the new figure
           cur == IF ~failed /\ is_panel THEN NextCounter(is_panel, current_ax)
                  ELSE current_ax
           indexError == ~failed /\ is_panel /\ ~InRange(r.figaxes, cur)
           ax == IF failed \/ indexError THEN Unset
                 ELSE FigureAx(is_panel, r.axes, OneAxis(PyIndex(r.figaxes, cur)))
           \* "return self.ax" when no branch has set the attribute
           attributeError == ~failed /\ ~indexError /\ ax = Unset
                                 /\ me.save # "memory"
       IN  /\ nfig' = IF r.created THEN f ELSE nfig
           /\ open' = IF r.created
                      THEN Append(open, [id |-> f, axes |-> r.figaxes])
                      ELSE open
           /\ current_ax' = cur
           /\ hist' = IF ~failed /\ is_panel THEN Append(hist, ax) ELSE hist
           /\ IF failed \/ indexError \/ attributeError
              THEN \* the with-block does not run; the object is dropped
                   /\ exc' = IF failed THEN r.error
                             ELSE IF indexError THEN "IndexError"
                             ELSE "AttributeError"
                   /\ figures' = Pop(figures)
                   /\ UNCHANGED <<stack, target>>
              ELSE /\ exc' = "None"
                   /\ figures' = [figures EXCEPT ![i].axes = r.axes, ![i].ax = ax,
                                      ![i].fig = IF r.created THEN f ELSE 0]
                   /\ stack' = Append(stack, "F")
                   /\ target' = IF me.save = "memory" THEN Memory ELSE ax
    /\ pending' = "none"
    /\ UNCHANGED <<panel_kw, is_panel, panels, decor, made, lastkw, geo>>

\* The type argument of __exit__: the exception that is propagating, else
\* "None" when the block ended normally and "Error" when it raised
ExitType(type) ==
    IF exc # "None" THEN type = exc ELSE type \in {"None", "Error"}

\* Panel.__exit__ on an object with the Panel attributes: what it applies to
\* self.ax (set_title, set_spines, set_grid, set_range)
Applied(o) ==
    LET a == o.ax.val[1]
    IN  (IF Truthy(o.title) THEN {<<a, "title", o.title>>} ELSE {})
        \cup (IF Truthy(o.spines) THEN {<<a, "spines", o.spines>>} ELSE {})
        \cup (IF Truthy(o.grid) THEN {<<a, "grid", o.grid>>} ELSE {})
        \cup (IF Truthy(o.extent) THEN {<<a, "extent", o.extent>>}
              ELSE (IF Truthy(o.x_range) \/ Truthy(o.y_range)
                    THEN (IF IsTuple(o.x_range)
                          THEN {<<a, "x_range", o.x_range>>} ELSE {})
                         \cup (IF IsTuple(o.y_range)
                               THEN {<<a, "y_range", o.y_range>>} ELSE {})
                    ELSE {}))

\* Panel.__exit__ raises AttributeError: a Panel attribute was never set, or
\* self.ax is no single axis although something is to be applied to it
ExitRaises(o) ==
    \/ "Absent" \in {o.spines, o.grid, o.x_range, o.y_range, o.extent}
    \/ /\ o.ax.kind # "axis"
       /\ \/ Truthy(o.title) \/ Truthy(o.spines) \/ Truthy(o.grid)
          \/ Truthy(o.extent) \/ Truthy(o.x_range) \/ Truthy(o.y_range)

\* What Panel.__exit__ applied before it raised: the title comes first
AppliedBeforeRaise(o) ==
    IF o.ax.kind = "axis" /\ Truthy(o.title)
    THEN {<<o.ax.val[1], "title", o.title>>}
    ELSE {}

\* Figure.__exit__ of the innermost running with-block; type is the
\* exception the block ended with, "None" for a normal end
FigureExit(type) ==
    /\ pending = "none"
    /\ stack # <<>>
    /\ Top(stack) = "F"
    /\ ExitType(type)
    /\ LET me == Top(figures)
           raises == is_panel /\ ExitRaises(me)
           \* self.fig.savefig when no branch of __enter__ has set self.fig
           nofig == me.save = "memory" /\ me.fig = 0
       IN  /\ decor' = IF ~is_panel THEN {}
                       ELSE IF raises THEN AppliedBeforeRaise(me)
                       ELSE Applied(me)
           /\ exc' = IF raises \/ nofig THEN "AttributeError" ELSE type
           \* plt.close() closes pyplot's current figure
           /\ open' = IF ~raises /\ ~nofig /\ me.save = "memory" /\ open # <<>>
                      THEN Pop(open)
                      ELSE open
    /\ stack' = Pop(stack)
    /\ figures' = Pop(figures)
    /\ UNCHANGED <<panel_kw, current_ax, is_panel, panels, nfig, pending,
                   target, made, lastkw, hist, geo>>

\* ------------------------------------------------------------------
\* Panel
\* ------------------------------------------------------------------

\* Panel.__init__; args, born and figkw are history: the arguments given,
\* the number of the last Figure constructed and its keyword arguments
PanelInit(title, args) ==
    /\ pending = "none"
    /\ exc # "None" => stack = <<>>
    /\ made.P < MaxPanels
    /\ Len(stack) < MaxDepth
    /\ panels' = Append(panels,
           [obj |-> PanelObject(title, args, panel_kw), args |-> args,
            born |-> made.F, figkw |-> lastkw])
    /\ pending' = "P"
    /\ exc' = "None"
    /\ made' = [made EXCEPT !.P = @ + 1]
    /\ UNCHANGED <<panel_kw, current_ax, is_panel, figures, open, nfig, decor,
                   stack, target, lastkw, hist, geo>>

\* Panel.__enter__ of the panel a with-statement has just constructed
PanelEnter ==
    /\ pending = "P"
    /\ LET j   == Len(panels)
           op  == GcfOpen(open, nfig)
           axes_list == Top(op).axes
           cur == NextCounter(is_panel, current_ax)
       IN  /\ open' = op
           /\ nfig' = GcfCount(open, nfig)
           /\ current_ax' = cur
           /\ IF InRange(axes_list, cur)
              THEN /\ panels' = [panels EXCEPT
                                    ![j].obj.ax = OneAxis(PyIndex(axes_list, cur))]
                   /\ target' = OneAxis(PyIndex(axes_list, cur))
                   /\ hist' = Append(hist, OneAxis(PyIndex(axes_list, cur)))
                   /\ stack' = Append(stack, "P")
                   /\ exc' = "None"
                   /\ figures' = IF stack # <<>> /\ Top(stack) = "F"
                                 THEN [figures EXCEPT ![Len(figures)].entered = @ + 1]
                                 ELSE figures
              ELSE \* IndexError: self.ax is not set, the block does not run
                   /\ panels' = Pop(panels)
                   /\ hist' = Append(hist, Unset)
                   /\ exc' = "IndexError"
                   /\ UNCHANGED <<target, stack, figures>>
    /\ pending' = "none"
    /\ UNCHANGED <<panel_kw, is_panel, decor, made, lastkw, geo>>

\* Panel.__exit__ of the innermost running with-block
PanelExit(type) ==
    /\ pending = "none"
    /\ stack # <<>>
    /\ Top(stack) = "P"
    /\ ExitType(type)
    /\ decor' = Applied(Top(panels).obj)
    /\ exc' = type
    /\ stack' = Pop(stack)
    /\ panels' = Pop(panels)
    /\ UNCHANGED <<panel_kw, current_ax, is_panel, figures, open, nfig,
                   pending, target, made, lastkw, hist, geo>>

\* ------------------------------------------------------------------
\* The programs: sequences of nested with-statements
\* ------------------------------------------------------------------

\* Every setting passed to a Figure
FigAll ==
    [spines |-> "lrtb", grid |-> "x", x_range |-> "(0,1)", y_range |-> "(2,3)",
     extent |-> "[0,1,0,1]"]

\* Every setting passed to a Panel
PanelAll ==
    [spines |-> "l", grid |-> "y", x_range |-> "(2,3)", y_range |-> "(0,1)",
     extent |-> "[2,3,2,3]"]

\* grid="" as in test_Figure_grid, and spines switched off the same way
PanelOff == [spines |-> "", grid |-> ""]

\* Settings passed as None explicitly
ExplicitNone == [grid |-> "None", x_range |-> "None"]

FigKwargs == {NoArgs, FigAll, ExplicitNone}

PanelArgs == {NoArgs, PanelAll, PanelOff}

Saves == {"None", "memory"}

ExcTypes == {"None", "Error", "IndexError", "ValueError", "TypeError",
             "AttributeError"}

\* [[0,0,1],[2,'.',1]], the mosaic of the documentation
MosaicDoc ==
    Mosaic(<< <<IntLabel(0), IntLabel(0), IntLabel(1)>>,
              <<IntLabel(2), Sentinel, IntLabel(1)>> >>)

\* [[1,0]]: the labels do not ascend from left to right
MosaicDesc == Mosaic(<< <<IntLabel(1), IntLabel(0)>> >>)

\* [[0,0]]: a figure of several cells and one slot
MosaicOne == Mosaic(<< <<IntLabel(0), IntLabel(0)>> >>)

Layouts == {Grid(1, 1), Grid(1, 2), MosaicDesc, MosaicOne}

\* Programs that differ in layout and in where the figure is saved
Next ==
    \/ \E layout \in Layouts, save \in Saves :
           FigureInit(layout, "", save, NoArgs)
    \/ FigureEnter
    \/ \E type \in ExcTypes : FigureExit(type)
    \/ PanelInit("T", NoArgs)
    \/ PanelEnter
    \/ \E type \in ExcTypes : PanelExit(type)

Init == InitFig /\ geo = NoGeo

Spec == Init /\ [][Next]_vars

\* Programs that differ in the settings passed to Figure and Panel
NextKw ==
    \/ \E layout \in {Grid(1, 1), Grid(1, 2)}, kwargs \in FigKwargs :
           FigureInit(layout, "T", "None", kwargs)
    \/ FigureEnter
    \/ \E type \in ExcTypes : FigureExit(type)
    \/ \E args \in PanelArgs : PanelInit("T", args)
    \/ PanelEnter
    \/ \E type \in ExcTypes : PanelExit(type)

SpecKw == Init /\ [][NextKw]_vars

\* ------------------------------------------------------------------
\* Layout resolution on its own: one with-statement, any layout
\* ------------------------------------------------------------------

\* The labels 0, 1, 2, 10 and "a", "b", "B", "ab"
IntLabels == {IntLabel(0), IntLabel(1), IntLabel(2), IntLabel(10)}

StrLabels == {StrLabel(<<97>>), StrLabel(<<98>>), StrLabel(<<66>>),
              StrLabel(<<97, 98>>)}

Labels == IntLabels \cup StrLabels \cup {Sentinel}

Matrices(r, c, L) == [1..r -> [1..c -> L]]

MosaicLayouts ==
    {Mosaic(m) : m \in Matrices(2, 3, {IntLabel(0), IntLabel(1), IntLabel(2), Sentinel})
                       \cup Matrices(2, 2, Labels)
                       \cup Matrices(1, 3, Labels)
                       \cup Matrices(1, 2, Labels)}

GridLayouts == {Grid(r, c) : r \in 1..MaxGrid, c \in 1..MaxGrid}

\* "ab", (0, 2), (2, 0), (0, 0), [], [[0, 1], [2]] and [[0], [1, 2]]
InvalidLayouts ==
    {StrLayout, Grid(0, 2), Grid(2, 0), Grid(0, 0), Mosaic(<<>>),
     Mosaic(<< <<IntLabel(0), IntLabel(1)>>, <<IntLabel(2)>> >>),
     Mosaic(<< <<IntLabel(0)>>, <<IntLabel(1), IntLabel(2)>> >>)}

NextLayout ==
    \/ /\ made.F = 0
       /\ \E layout \in GridLayouts \cup MosaicLayouts :
              FigureInit(layout, "", "None", NoArgs)
    \/ /\ made.F = 0
       /\ \E layout \in InvalidLayouts, save \in Saves :
              FigureInit(layout, "", save, NoArgs)
    \/ FigureEnter
    \/ \E type \in ExcTypes : FigureExit(type)

SpecLayout == Init /\ [][NextLayout]_vars

\* ------------------------------------------------------------------
\* The map helpers of figurenv/figure.py
\*
\* Longitudes are in tenths of a degree, metric coordinates in metres,
\* anchors in centimetres (so that the fractions 0.95, 0.04, ... are
\* exact), lengths in tenths of the unit (10 km is 100), locations in
\* per cent.
\* ------------------------------------------------------------------

\* Longitudes tried, in degrees either side of 0
MaxLon == 190

\* The mutant of utm_from_lon: int() instead of floor()
utm_from_lon_int(lon) ==
    LET x == lon + 1800
    IN  (IF x >= 0 THEN x \div 60 ELSE -((-x) \div 60)) + 1

\* utm_from_lon: floor((lon + 180) / 6) + 1
utm_from_lon(lon) == ((lon + 1800) \div 60) + 1

UtmFromLon(lon) ==
    /\ geo' = [op |-> "utm", lon |-> lon, zone |-> utm_from_lon(lon)]
    /\ UNCHANGED figvars

\* The mutant of ScalebarLength: inclusive thresholds
ScalebarLengthGE(w, length) ==
    IF w >= 15000 THEN 100 ELSE IF w >= 1500 THEN 10 ELSE 1

\* add_scalebar: the length drawn, given the metric width and the length
\* argument
ScalebarLength(w, length) ==
    IF w > 15000 THEN 100 ELSE IF w > 1500 THEN 10 ELSE 1

\* add_scalebar(ax, length, location, m_per_unit): glon is the geodetic
\* extent of ax in longitude, ext its extent in the UTM projection.  The
\* module never imports ccrs: the name resolves only when the importing
\* session has bound it in the module's globals (ccrs_bound), otherwise
\* line 263 raises NameError before anything is computed
AddScalebar(ccrs_bound, glon, ext, length, location, m_per_unit) ==
    LET zone == utm_from_lon((glon[1] + glon[2]) \div 2)
        x0 == ext[1]
        x1 == ext[2]
        y0 == ext[3]
        y1 == ext[4]
        len    == ScalebarLength(x1 - x0, length)
        sbcx_1 == 100 * x0 + (x1 - x0) * 95
        sbcy_1 == 100 * y0 + (y1 - y0) * location[2]
        sbcy_2 == 100 * y0 + (y1 - y0) * (location[2] + 1)
        y_ur   == 100 * y0 + (y1 - y0) * 90
        bar_xs == <<sbcx_1 - len * m_per_unit * 10, sbcx_1>>
        call   == [op |-> "scalebar", ext |-> ext, arg |-> length,
                   location |-> location, m_per_unit |-> m_per_unit]
    IN  /\ geo' = IF ccrs_bound
                  THEN call @@ [zone |-> zone, length |-> len,
                                bar_xs |-> bar_xs, bar_y |-> sbcy_1,
                                label |-> <<sbcx_1, sbcy_2>>,
                                arrow |-> <<sbcx_1, y_ur>>,
                                raised |-> "None", drawn |-> TRUE]
                  ELSE call @@ [zone |-> 0, length |-> 0,
                                bar_xs |-> <<>>, bar_y |-> 0,
                                label |-> <<>>, arrow |-> <<>>,
                                raised |-> "NameError", drawn |-> FALSE]
        /\ UNCHANGED figvars

\* add_basemap(ax, extent, tiles): extent is <<>> for None
KnownTiles == {"osm", "google", "satellite-google", "satellite-ms", "stamen",
               "stamen-toner", "stamen-watercolor"}

ValidExtent(extent) ==
    /\ Len(extent) = 4
    /\ extent[1] < extent[2]
    /\ extent[3] < extent[4]

AddBasemap(extent, tiles) ==
    /\ geo' = [op |-> "basemap", ext |-> extent, tiles |-> tiles,
               set_extent |-> ValidExtent(extent),
               drawn |-> (ValidExtent(extent) /\ tiles \in KnownTiles),
               raised |-> IF ValidExtent(extent) /\ tiles \notin KnownTiles
                          THEN "UnboundLocalError" ELSE "None"]
    /\ UNCHANGED figvars

\* Tick limits tried, in hundredths either side of 0
MaxTick == 60

\* Python's round(n / d) for d > 0: to the nearest integer, a tie to the
\* even one
PyRound(n, d) ==
    LET q == n \div d
        r == n % d
    IN  IF 2 * r < d THEN q
        ELSE IF 2 * r > d THEN q + 1
        ELSE IF q % 2 = 0 THEN q ELSE q + 1

\* 10 ** math.floor(math.log10(abs(diff))), diff and the result in
\* hundredths; diff is not 0
Magnitude(diff) ==
    LET d == IF diff < 0 THEN -diff ELSE diff
    IN  IF d < 10 THEN 1 ELSE IF d < 100 THEN 10 ELSE 100

\* np.arange(x_1, x_2, step) for step > 0: x_2 is not included
Arange(x_1, x_2, step) ==
    LET n == IF x_2 > x_1 THEN (x_2 - x_1 + step - 1) \div step ELSE 0
    IN  [k \in 1..n |-> x_1 + (k - 1) * step]

\* guess_ticks_from_lim(a, b, steps): limits and ticks in hundredths, steps
\* is <<>> for None; math.log10(0) raises ValueError
guess_ticks_from_lim(a, b, steps) ==
    IF steps = <<>> /\ b - a = 0
    THEN [raised |-> "ValueError", step |-> 0, x_1 |-> 0, x_2 |-> 0,
          ticks |-> <<>>]
    ELSE LET round_digit == IF steps = <<>> THEN Magnitude(b - a) ELSE steps[1]
             x_1 == PyRound(a, round_digit) * round_digit
             x_2 == PyRound(b, round_digit) * round_digit
             A   == Arange(x_1, x_2, round_digit)
         IN  [raised |-> "None", step |-> round_digit, x_1 |-> x_1,
              x_2 |-> x_2,
              ticks |-> SelectSeq(A, LAMBDA v : v >= a /\ v <= b)]

GuessTicks(a, b, steps) ==
    /\ geo' = [op |-> "ticks", a |-> a, b |-> b, steps |-> steps]
                  @@ guess_ticks_from_lim(a, b, steps)
    /\ UNCHANGED figvars

\* Metric widths and heights around the thresholds, degenerate ones included
Widths == {-5, 0, 500, 1499, 1500, 1501, 2000, 14999, 15000, 15001, 20000}

Heights == {-1, 0, 1000, 20000}

MetricExtents ==
    {<<x0, x0 + w, y0, y0 + h>> :
        x0 \in {0, 500000}, w \in Widths, y0 \in {0, 5000000}, h \in Heights}
    \cup {<<10, 5, 0, 1>>, <<0, 0, 0, 1>>}

\* (10, 5, 0, 1), (0, 0, 0, 1) and extents in degrees
DegreeExtents == {<<>>, <<9, 11>>, <<9, 11, 49, 51>>, <<10, 5, 0, 1>>,
                  <<0, 0, 0, 1>>, <<0, 1, 1, 1>>, <<0, 1, 2, 1>>}

\* One call of one helper
NextGeo ==
    \/ /\ geo = NoGeo
       /\ \E lon \in (-10 * MaxLon)..(10 * MaxLon) : UtmFromLon(lon)
    \/ /\ geo = NoGeo
       /\ \E ccrs_bound \in BOOLEAN, glon \in {<<90, 110>>, <<-1800, -1790>>},
             ext \in MetricExtents, length \in {10, 50},
             location \in {<<89, 4>>, <<50, 10>>}, m_per_unit \in {1000, 1} :
              AddScalebar(ccrs_bound, glon, ext, length, location, m_per_unit)
    \/ /\ geo = NoGeo
       /\ \E extent \in DegreeExtents, tiles \in {"osm", "satellite-ms", "bing"} :
              AddBasemap(extent, tiles)
    \/ /\ geo = NoGeo
       /\ \E a \in (-MaxTick)..MaxTick, b \in (-MaxTick)..MaxTick,
             steps \in {<<>>, <<10>>, <<25>>} :
              GuessTicks(a, b, steps)

SpecGeo == Init /\ [][NextGeo]_vars

\* ------------------------------------------------------------------
\* Properties of the map helpers (checked under SpecGeo)
\* ------------------------------------------------------------------

\* C7: the zone of every longitude lon is floor((lon + 180) / 6) + 1, i.e.
\* the one integer z with 6 (z - 1) <= lon + 180 < 6 z; longitude -180
\* gives zone 1, longitude 0 zone 31 and longitude 179.9 zone 60; the
\* scale bar picks the zone of the mid-longitude the same way
UtmZoneIsFloor ==
    /\ geo.op = "utm" =>
          /\ 60 * (geo.zone - 1) <= geo.lon + 1800
          /\ geo.lon + 1800 < 60 * geo.zone
          /\ (geo.lon = -1800 => geo.zone = 1)
          /\ (geo.lon = 0 => geo.zone = 31)
          /\ (geo.lon = 1799 => geo.zone = 60)
    /\ (geo.op = "scalebar" /\ geo.raised = "None") => geo.zone \in {1, 32}

\* C7: longitude 179.9 has been given zone 60
UtmZoneWitness == geo.op = "utm" /\ geo.lon = 1799 /\ geo.zone = 60

ScalebarAnchors ==
    (/\ geo.op = "scalebar"
     /\ geo.raised = "None"
     /\ geo.location = <<89, 4>>
     /\ geo.m_per_unit = 1000) =>
        LET x0 == geo.ext[1]
            y0 == geo.ext[3]
            w  == geo.ext[2] - geo.ext[1]
            h  == geo.ext[4] - geo.ext[3]
        IN  /\ geo.bar_xs[2] = 100 * x0 + 95 * w
            /\ geo.bar_xs[1] = geo.bar_xs[2] - geo.length * 10000
            /\ geo.bar_y = 100 * y0 + 4 * h
            /\ geo.label[2] = 100 * y0 + 5 * h
            /\ geo.arrow = <<100 * x0 + 97 * w, 100 * y0 + 90 * h>>

\* C10: a call of add_scalebar with a degenerate extent (x0 >= x1 or
\* y0 >= y1) fails with InvalidExtentError and draws nothing
DegenerateExtentFails ==
    (/\ geo.op = "scalebar"
     /\ (geo.ext[1] >= geo.ext[2] \/ geo.ext[3] >= geo.ext[4])) =>
        /\ geo.raised = "InvalidExtentError"
        /\ ~geo.drawn


\* ------------------------------------------------------------------
\* Properties of layout resolution (checked under SpecLayout)
\* ------------------------------------------------------------------

\* The figure whose with-block is running, entered and with self.axes set
Entered(F) == F.axes.kind = "list"

Ascending(a, b) ==
    IF a[1] = 0 /\ b[1] = 0 THEN a[2] < b[2]
    ELSE /\ a[1] = 1
         /\ b[1] = 1
         /\ \E p \in 2..(Len(b)) :
                /\ \A q \in 2..(p - 1) : q <= Len(a) /\ a[q] = b[q]
                /\ (p > Len(a) \/ a[p] < b[p])

InMultiPanelFigure ==
    /\ figures # <<>>
    /\ Top(figures).no = made.F
    /\ Entered(Top(figures))
    /\ ~IsOneByOne(Top(figures).layout)

\* C1: inside a multi-panel Figure with n resolved slots, the k-th Panel
\* entered since the Figure was constructed (k < n) has received the axis
\* at position k of self.axes, and no two of them the same axis
PanelGetsResolvedSlot ==
    InMultiPanelFigure =>
        LET F == Top(figures)
            n == Len(F.axes.val)
            K == {k \in 1..Len(hist) : k <= n}
        IN  /\ \A k \in K : hist[k] = OneAxis(F.axes.val[k])
            /\ \A k, l \in K : k # l => hist[k] # hist[l]

\* The step in which the Figure of layout (1,1) constructed last is entered
\* and its with-block starts
EnterOneByOne ==
    /\ pending = "F"
    /\ IsOneByOne(Top(figures).layout)
    /\ pending' = "none"
    /\ exc' = "None"

\* C3: for the layout (1,1), what the with-statement receives from
\* Figure.__enter__ is a sequence holding exactly one slot
OneByOneYieldsSequence ==
    [][EnterOneByOne => (target'.kind = "list" /\ Len(target'.val) = 1)]_vars

\* C3, amended: for the layout (1,1), the with-statement receives the
\* single axis itself (the memory buffer when save is "memory"); the
\* sequence holding exactly that one slot is kept in self.axes
OneByOneYieldsAxis ==
    [][EnterOneByOne =>
          LET F == Top(figures')
          IN  /\ F.axes.kind = "list"
              /\ Len(F.axes.val) = 1
              /\ F.ax = OneAxis(F.axes.val[1])
              /\ target' = IF F.save = "memory" THEN Memory ELSE F.ax]_vars

\* C3: the with-block of a Figure of layout (1,1) runs and has received
\* the figure's single axis
OneByOneWitness ==
    /\ stack # <<>>
    /\ Top(stack) = "F"
    /\ pending = "none"
    /\ IsOneByOne(Top(figures).layout)
    /\ target = Top(figures).ax
    /\ target.kind = "axis"
    /\ Top(figures).axes = AxList(target.val)

\* C6: once a Figure is constructed the axis counter is -1, and the first
\* Panel entered in it receives slot 0 of its resolved axes, whatever was
\* constructed, entered or exited before
FirstPanelGetsSlotZero ==
    /\ pending = "F" => current_ax = -1
    /\ (InMultiPanelFigure /\ hist # <<>>) =>
           hist[1] = OneAxis(Top(figures).axes.val[1])

\* C5: each setting of a live Panel is its own argument when that is not
\* None ("" included), otherwise the value the Figure constructed last
\* before it was given, otherwise the default; an empty setting is not
\* applied at exit
PanelSettingPriority ==
    /\ \A n \in 1..Len(panels) : \A k \in Keys :
           LET P == panels[n]
           IN  P.obj[k] = IF Arg(P.args, k) # "None" THEN P.args[k]
                          ELSE IF k \in DOMAIN P.figkw THEN P.figkw[k]
                          ELSE default_panel_kw[k]
    /\ \A n \in 1..Len(figures) : \A k \in Keys :
           LET F == figures[n]
           IN  IsOneByOne(F.layout) =>
                   F[k] = IF k \in DOMAIN F.kwargs THEN F.kwargs[k]
                          ELSE default_panel_kw[k]
    /\ \A d \in decor : d[3] # ""

\* C5: a Panel of an earlier Figure that passed grid="x" and a Panel of a
\* later Figure that passed nothing are alive; the later one has the
\* default grid
PanelSettingWitness ==
    \E n, l \in 1..Len(panels) :
        /\ panels[n].born < panels[l].born
        /\ panels[n].figkw = FigAll
        /\ panels[n].args = NoArgs
        /\ panels[n].obj.grid = "x"
        /\ panels[l].figkw = NoArgs
        /\ panels[l].args = PanelOff
        /\ panels[l].obj.grid = ""
        /\ panels[l].obj.x_range = "None"


\* ------------------------------------------------------------------
\* Properties of guess_ticks_from_lim (checked under SpecGeo)
\* ------------------------------------------------------------------

\* C11: the ticks returned for [a, b] are, in ascending order, exactly the
\* values x_1 + k * step (k = 0, 1, ...) that lie in [a, b], b included,
\* where the step defaults to the power of ten of the magnitude of b - a;
\* guess_ticks(0.0, 0.35) returns 0.0, 0.1, 0.2, 0.3
GuessTicksComplete ==
    (geo.op = "ticks" /\ geo.raised = "None") =>
        LET t == geo.ticks
            d == IF geo.b < geo.a THEN geo.a - geo.b ELSE geo.b - geo.a
        IN  /\ geo.steps = <<>> =>
                   geo.step = IF d < 10 THEN 1 ELSE IF d < 100 THEN 10 ELSE 100
            /\ {t[k] : k \in 1..Len(t)} =
                   {v \in geo.a..geo.b :
                        v >= geo.x_1 /\ (v - geo.x_1) % geo.step = 0}
            /\ \A k \in 1..(Len(t) - 1) : t[k] < t[k + 1]
            /\ (geo.a = 0 /\ geo.b = 35 /\ geo.steps = <<>>) =>
                   t = <<0, 10, 20, 30>>


\* ------------------------------------------------------------------
\* Properties of invalid layouts (checked under SpecLayout)
\* ------------------------------------------------------------------

\* C12: entering a Figure whose layout is neither a tuple of two positive
\* integers nor a non-empty rectangular list of rows fails with
\* InvalidLayoutError, and the with-block does not start
InvalidLayoutFails ==
    [][(/\ pending = "F"
        /\ Top(figures).layout \in InvalidLayouts
        /\ pending' = "none") =>
           (/\ exc' = "InvalidLayoutError"
            /\ stack' = stack
            /\ target' = target)]_vars


\* ------------------------------------------------------------------
\* Properties of figures in use at once (checked under Spec)
\* ------------------------------------------------------------------

\* A Panel is entered, without error, directly inside the with-block of
\* an entered grid Figure of more than one slot
EnterPanelInGrid ==
    /\ pending = "P"
    /\ pending' = "none"
    /\ exc' = "None"
    /\ stack # <<>>
    /\ Top(stack) = "F"
    /\ Top(figures).layout.tuple
    /\ ~IsOneByOne(Top(figures).layout)

\* C13: whatever other Figures were constructed, entered and left in the
\* meantime, a Panel entered inside the block of a Figure A that has had
\* j Panels entered receives A's slot j (stated for uniform grids, where
\* the resolved order is the order of the figure's axes)
NoCrossTalk ==
    [][EnterPanelInGrid =>
          LET A == Top(figures)
          IN  /\ A.entered < Len(A.axes.val)
              /\ target' = OneAxis(A.axes.val[A.entered + 1])]_vars


\* ------------------------------------------------------------------
\* Properties of leaving a with-block (checked under SpecKw)
\* ------------------------------------------------------------------

\* A setting that is set: neither None nor empty
IsSet(v) == v \notin {"None", ""}

\* The settings of o that are to be found on its axis once its block is
\* left: title, spines and grid, and the range (the extent, else the x and
\* y ranges)
Expected(o) ==
    LET a == o.ax.val[1]
    IN  {<<a, k, o[k]>> : k \in {k \in {"title", "spines", "grid", "extent"} :
                                    IsSet(o[k])}}
        \cup {<<a, k, o[k]>> : k \in {k \in {"x_range", "y_range"} :
                                         ~IsSet(o.extent) /\ IsSet(o[k])}}

\* The with-block of a Panel is left
LeavePanel ==
    /\ pending = "none"
    /\ stack # <<>>
    /\ Top(stack) = "P"
    /\ stack' = Pop(stack)

\* The with-block of a Figure of layout (1,1), which has entered as a
\* Panel and acquired its axis, is left
LeaveFigurePanel ==
    /\ pending = "none"
    /\ stack # <<>>
    /\ Top(stack) = "F"
    /\ IsOneByOne(Top(figures).layout)
    /\ Top(figures).ax.kind = "axis"
    /\ stack' = Pop(stack)

\* C14: when the block of an entered Panel is left, normally or by an
\* exception, the Panel's settings that are set are applied to the axis it
\* acquired, and an exception that is propagating goes on propagating; a
\* Figure of one panel is such a Panel
PanelAppliesSettings ==
    [][/\ LeavePanel =>
              /\ decor' = Expected(Top(panels).obj)
              /\ exc # "None" => exc' = exc
       /\ LeaveFigurePanel =>
              /\ decor' = Expected(Top(figures))
              /\ exc # "None" => exc' = exc]_vars


\* ------------------------------------------------------------------
\* Properties of the axis counter (checked under Spec)
\* ------------------------------------------------------------------

\* C16: while a multi-panel Figure of n slots is the Figure constructed
\* last, -1 <= Figure.current_ax <= n - 1, also after a Panel was entered
\* when all n slots had been issued
CounterInRange ==
    InMultiPanelFigure =>
        /\ -1 <= current_ax
        /\ current_ax <= Len(Top(figures).axes.val) - 1


\* ------------------------------------------------------------------
\* GeoPanel (figurex/geo/figure.py)
\* ------------------------------------------------------------------

\* The axis fig.add_subplot(rows, cols, start + 1, projection=...) creates:
\* a new object at grid cell start; its label <<2, p>> tells it from the
\* axes of plt.subplots, p being the number of the GeoPanel that made it
Projected(f, p, start) == Axis(f, <<2, p>>, start)

\* list.remove of the element at (0-based) index i
RemoveAt(s, i) == [k \in 1..(Len(s) - 1) |-> IF k <= i THEN s[k] ELSE s[k + 1]]

\* GeoPanel.update_projection(ax): axs is plt.gcf().axes.  The axis at
\* index start of that list is removed and the new axis is appended to it;
\* axesflat[start] raises IndexError when the list is shorter
update_projection(axs, ax, p) ==
    IF ~InRange(axs, ax.start)
    THEN [raised |-> "IndexError", axes |-> axs, ax |-> ax]
    ELSE LET new == Projected(ax.fig, p, ax.start)
         IN  [raised |-> "None",
              axes |-> Append(RemoveAt(axs, ax.start), new),
              ax |-> new]

\* GeoPanel.__init__: Panel.__init__, then tiles and projection
GeoPanelInit(title, args, projection, tiles) ==
    /\ pending = "none"
    /\ exc # "None" => stack = <<>>
    /\ made.P < MaxPanels
    /\ Len(stack) < MaxDepth
    /\ panels' = Append(panels,
           [obj |-> PanelObject(title, args, panel_kw)
                        @@ [projection |-> projection, tiles |-> tiles],
            args |-> args, born |-> made.F, figkw |-> lastkw])
    /\ pending' = "G"
    /\ exc' = "None"
    /\ made' = [made EXCEPT !.P = @ + 1]
    /\ UNCHANGED <<panel_kw, current_ax, is_panel, figures, open, nfig, decor,
                   stack, target, lastkw, hist, geo>>

\* GeoPanel.__enter__ of the GeoPanel a with-statement has just constructed
GeoPanelEnter ==
    /\ pending = "G"
    /\ LET j   == Len(panels)
           op  == GcfOpen(open, nfig)
           axes_list == Top(op).axes
           cur == NextCounter(is_panel, current_ax)
       IN  /\ nfig' = GcfCount(open, nfig)
           /\ current_ax' = cur
           /\ IF InRange(axes_list, cur)
              THEN \E u \in {update_projection(axes_list,
                                               PyIndex(axes_list, cur), made.P)} :
                     /\ open' = [op EXCEPT ![Len(op)].axes = u.axes]
                     /\ IF u.raised = "None"
                        THEN /\ panels' = [panels EXCEPT ![j].obj.ax = OneAxis(u.ax)]
                             /\ target' = OneAxis(u.ax)
                             /\ hist' = Append(hist, OneAxis(u.ax))
                             /\ stack' = Append(stack, "G")
                             /\ exc' = "None"
                             /\ figures' =
                                    IF stack # <<>> /\ Top(stack) = "F"
                                    THEN [figures EXCEPT ![Len(figures)].entered = @ + 1]
                                    ELSE figures
                        ELSE /\ panels' = Pop(panels)
                             /\ hist' = Append(hist, Unset)
                             /\ exc' = u.raised
                             /\ UNCHANGED <<target, stack, figures>>
              ELSE \* IndexError in get_next_axis
                   /\ open' = op
                   /\ panels' = Pop(panels)
                   /\ hist' = Append(hist, Unset)
                   /\ exc' = "IndexError"
                   /\ UNCHANGED <<target, stack, figures>>
    /\ pending' = "none"
    /\ UNCHANGED <<panel_kw, is_panel, decor, made, lastkw, geo>>

\* GeoPanel.__exit__: the basemap when tiles are set (ax.get_extent exists
\* on a projected axis only), then Panel.__exit__
GeoPanelExit(type) ==
    /\ pending = "none"
    /\ stack # <<>>
    /\ Top(stack) = "G"
    /\ ExitType(type)
    /\ LET o == Top(panels).obj
           noExtent == Truthy(o.tiles) /\ o.projection = "None"
       IN  /\ decor' = IF noExtent THEN {}
                       ELSE Applied(o)
                            \cup (IF Truthy(o.tiles)
                                  THEN {<<o.ax.val[1], "basemap", o.tiles>>}
                                  ELSE {})
           /\ exc' = IF noExtent THEN "AttributeError" ELSE type
    /\ stack' = Pop(stack)
    /\ panels' = Pop(panels)
    /\ UNCHANGED <<panel_kw, current_ax, is_panel, figures, open, nfig,
                   pending, target, made, lastkw, hist, geo>>

\* Programs of Figures on uniform grids with GeoPanels in them
NextGeoPanel ==
    \/ \E layout \in {Grid(1, 1), Grid(1, 2), Grid(3, 1)} :
           FigureInit(layout, "", "None", NoArgs)
    \/ FigureEnter
    \/ \E type \in ExcTypes : FigureExit(type)
    \/ \E projection \in {"None", "flat"}, tiles \in {"None", "osm"} :
           GeoPanelInit("T", NoArgs, projection, tiles)
    \/ GeoPanelEnter
    \/ \E type \in ExcTypes : GeoPanelExit(type)

SpecGeoPanel == Init /\ [][NextGeoPanel]_vars

\* The axes pyplot's figure f holds
FigAxes(f) ==
    LET i == CHOOSE i \in 1..Len(open) : open[i].id = f
    IN  open[i].axes

\* C15: in a grid Figure of n slots the k-th GeoPanel entered (k < n) has
\* received a projected axis at grid position k, the axes handed to
\* earlier GeoPanels are still in the figure, and the figure holds exactly
\* one axis for each grid position
GeoPanelReplacesInPlace ==
    InMultiPanelFigure =>
        LET F == Top(figures)
            n == Len(F.axes.val)
            held == FigAxes(F.fig)
        IN  /\ \A k \in 1..Len(hist) : k <= n =>
                   /\ hist[k].kind = "axis"
                   /\ hist[k].val[1].label[1] = 2
                   /\ hist[k].val[1].start = k - 1
                   /\ \E i \in 1..Len(held) : held[i] = hist[k].val[1]
            /\ \A pos \in 0..(n - 1) :
                   Cardinality({i \in 1..Len(held) : held[i].start = pos}) = 1


====
